---- MODULE Spec2Model ----
(***************************************************************************)
(* Model of src/project1/main.py: the finance bot (BaseHandler,            *)
(* FinanceBot).  One inbound message is handled to completion per step.    *)
(*                                                                         *)
(* A message text is a sequence of characters (one-character strings); the *)
(* command and the four menu-button labels are single word tokens, which   *)
(* the parsers see as letters.  Numbers are exact decimals [m, e] standing *)
(* for m / 10^e (float() of the texts of the model, which hold no          *)
(* exponent, underscore, "inf" or "nan").                                   *)
(***************************************************************************)
EXTENDS Integers, Sequences, FiniteSets, TLC

\* ---------------------------------------------------------------- bounds
\* the longest expense list a user may build (guard of process_expense)
MaxExpenses == 2
\* the last calendar day of the clock (days are numbered from 0)
MaxClock == 1
\* the longest expense list of a user while handlers interleave
MaxConcExpenses == 1

\* ---------------------------------------------------------------- inputs
Chats == {"1"}
\* the chats whose handlers run on the transport's worker threads
ConcChats == {"1", "2"}

\* menu-button labels and the command, main.py lines 55, 66, 74, 82, 98
\* ("Добавить расход", "Установить бюджет на день", "Просмотр расходов",
\*  "Удалить расход")
BtnAddExpense == <<"Add expense">>
BtnSetDailyLimit == <<"Set daily budget">>
BtnViewExpenses == <<"View expenses">>
BtnDeleteExpense == <<"Delete expense">>
CmdStart == <<"/start">>

\* the texts a user sends
Texts ==
    { CmdStart, BtnAddExpense, BtnSetDailyLimit, BtnViewExpenses, BtnDeleteExpense,
      <<"a", ",", "2">>,
      <<" ", "b", " ", ",", " ", "-", "1", ".", "5", " ">>,
      <<"a", ",", "1", ",", "2">>,
      <<"a", ",", "b">>,
      <<"a">>,
      <<"1">>, <<" ", "2", " ">>, <<"0">>, <<"-", "1">>, <<"1", ".", "5">> }

\* an inbound message: a text message, or one without text (message.text is None)
Messages ==
    [chat : Chats, content_type : {"text"}, text : Texts]
      \cup [chat : Chats, content_type : {"photo"}, text : {<< >>}]

\* ------------------------------------------------------- exact decimals
RECURSIVE Pow10(_)
Pow10(n) == IF n = 0 THEN 1 ELSE 10 * Pow10(n - 1)

RECURSIVE Norm(_, _)
Norm(m, e) ==
    IF m = 0 THEN [m |-> 0, e |-> 0]
    ELSE IF e > 0 /\ m % 10 = 0 THEN Norm(m \div 10, e - 1)
    ELSE [m |-> m, e |-> e]

MaxOf(a, b) == IF a >= b THEN a ELSE b

Zero == [m |-> 0, e |-> 0]

NumAdd(a, b) ==
    LET e == MaxOf(a.e, b.e)
    IN  Norm(a.m * Pow10(e - a.e) + b.m * Pow10(e - b.e), e)

\* a > b
NumGt(a, b) ==
    LET e == MaxOf(a.e, b.e)
    IN  a.m * Pow10(e - a.e) > b.m * Pow10(e - b.e)

\* ------------------------------------------------------ string functions
Whitespace == {" "}
Digits == {"0", "1", "2", "3", "4", "5", "6", "7", "8", "9"}

DigitVal(ch) ==
    CASE ch = "0" -> 0 [] ch = "1" -> 1 [] ch = "2" -> 2 [] ch = "3" -> 3
      [] ch = "4" -> 4 [] ch = "5" -> 5 [] ch = "6" -> 6 [] ch = "7" -> 7
      [] ch = "8" -> 8 [] ch = "9" -> 9

RECURSIVE LStrip(_)
LStrip(s) == IF s # << >> /\ Head(s) \in Whitespace THEN LStrip(Tail(s)) ELSE s

RECURSIVE RStrip(_)
RStrip(s) ==
    IF s # << >> /\ s[Len(s)] \in Whitespace
    THEN RStrip(SubSeq(s, 1, Len(s) - 1))
    ELSE s

\* str.strip(): no leading and no trailing whitespace
Strip(s) == RStrip(LStrip(s))

\* str.split(","): the parts between the commas, every comma a separator
RECURSIVE SplitFrom(_, _, _)
SplitFrom(s, i, cur) ==
    IF i > Len(s) THEN << cur >>
    ELSE IF s[i] = "," THEN << cur >> \o SplitFrom(s, i + 1, << >>)
    ELSE SplitFrom(s, i + 1, Append(cur, s[i]))

Split(s) == SplitFrom(s, 1, << >>)

\* the value of a digit string, most significant digit first
RECURSIVE DigitsVal(_)
DigitsVal(s) ==
    IF s = << >> THEN 0
    ELSE DigitsVal(SubSeq(s, 1, Len(s) - 1)) * 10 + DigitVal(s[Len(s)])

AllDigits(s) == \A i \in 1..Len(s) : s[i] \in Digits

HasSign(u) == u # << >> /\ u[1] \in {"+", "-"}
Unsigned(u) == IF HasSign(u) THEN Tail(u) ELSE u
SignOf(u) == IF u # << >> /\ u[1] = "-" THEN -1 ELSE 1

\* int(s): optional whitespace around, optional sign, one or more digits.
\* [ok |-> FALSE] stands for ValueError.
ParseIntOfFloat(s) ==
    LET u == Strip(s)
        d == Unsigned(u)
        dots == {i \in 1..Len(d) : d[i] = "."}
        k == IF dots = {} THEN Len(d) + 1 ELSE CHOOSE i \in dots : TRUE
        ip == SubSeq(d, 1, k - 1)
        fp == SubSeq(d, k + 1, Len(d))
    IN  IF Cardinality(dots) <= 1 /\ AllDigits(ip) /\ AllDigits(fp) /\ Len(ip) + Len(fp) >= 1
        THEN [ok |-> TRUE, val |-> SignOf(u) * DigitsVal(ip)]
        ELSE [ok |-> FALSE, val |-> 0]
ParseInt(s) ==
    LET u == Strip(s)
        d == Unsigned(u)
    IN  IF d # << >> /\ AllDigits(d)
        THEN [ok |-> TRUE, val |-> SignOf(u) * DigitsVal(d)]
        ELSE [ok |-> FALSE, val |-> 0]

\* float(s): optional whitespace around, optional sign, digits with at most one
\* point and at least one digit.  [ok |-> FALSE] stands for ValueError.
ParseFloatAbs(s) ==
    LET u == Strip(s)
        d == Unsigned(u)
        dots == {i \in 1..Len(d) : d[i] = "."}
        k == IF dots = {} THEN Len(d) + 1 ELSE CHOOSE i \in dots : TRUE
        ip == SubSeq(d, 1, k - 1)
        fp == SubSeq(d, k + 1, Len(d))
    IN  IF Cardinality(dots) <= 1 /\ AllDigits(ip) /\ AllDigits(fp) /\ Len(ip) + Len(fp) >= 1
        THEN [ok |-> TRUE, val |-> Norm(DigitsVal(ip \o fp), Len(fp))]
        ELSE [ok |-> FALSE, val |-> Zero]
ParseFloat(s) ==
    LET u == Strip(s)
        d == Unsigned(u)
        dots == {i \in 1..Len(d) : d[i] = "."}
        k == IF dots = {} THEN Len(d) + 1 ELSE CHOOSE i \in dots : TRUE
        ip == SubSeq(d, 1, k - 1)
        fp == SubSeq(d, k + 1, Len(d))
    IN  IF Cardinality(dots) <= 1 /\ AllDigits(ip) /\ AllDigits(fp) /\ Len(ip) + Len(fp) >= 1
        THEN [ok |-> TRUE, val |-> Norm(SignOf(u) * DigitsVal(ip \o fp), Len(fp))]
        ELSE [ok |-> FALSE, val |-> Zero]

\* ----------------------------------------------------------------- state
VARIABLES
    users,               \* self.users: chat id -> user record
    file,                \* the JSON document in user_data.json
    file_exists,         \* os.path.exists(self.data_file)
    next_step_handlers,  \* the transport's continuations, per chat: a list of callbacks
    clock,               \* the calendar day of datetime.now(): strftime("%Y-%m-%d")
    outbox,              \* the messages the last handler sent, in order
    raised,              \* the exception that escaped the last handler, or "none"
    last,                \* the last step: the operation and the message it handled
    threads              \* per chat, the handler a worker thread is running

vars == << users, file, file_exists, next_step_handlers, clock, outbox, raised, last,
          threads >>

\* Python's None in a record of self.users; JSON's null in the file
None == "None"
JsonNull == "null"

\* the record set_user_state creates, main.py line 42
DefaultUser == [expenses |-> << >>, daily_limit |-> Zero, state |-> None]

\* json.dump(self.users): None is written as null
JsonDump(u) ==
    [c \in DOMAIN u |->
        [expenses |-> u[c].expenses,
         daily_limit |-> u[c].daily_limit,
         state |-> IF u[c].state = None THEN JsonNull ELSE u[c].state]]

\* json.load(file): null is read as None
JsonLoad(f) ==
    [c \in DOMAIN f |->
        [expenses |-> f[c].expenses,
         daily_limit |-> f[c].daily_limit,
         state |-> IF f[c].state = JsonNull THEN None ELSE f[c].state]]

\* a worker thread: the handler it runs (op), the message, the statements it
\* still has to run (rest), the messages it has sent, its locals (date of line
\* 134, deleted of line 170), and the user's record as it was when the
\* handler started (before)
IdleThread ==
    [op |-> "idle", message |-> [chat |-> "", content_type |-> "none", text |-> << >>],
     rest |-> << >>, sent |-> << >>, date |-> 0,
     deleted |-> [category |-> << >>, amount |-> Zero],
     before |-> [present |-> FALSE, rec |-> DefaultUser]]

\* the bot as one value: what a handler reads and writes
Bot ==
    [users |-> users, file |-> file, file_exists |-> file_exists,
     next_step_handlers |-> next_step_handlers,
     outbox |-> << >>, raised |-> "none"]

\* ------------------------------------------------------------ BaseHandler
save_user_data(b) ==
    [b EXCEPT !.file = JsonDump(b.users), !.file_exists = TRUE]

get_user_state(b, chat_id) ==
    IF chat_id \in DOMAIN b.users THEN b.users[chat_id].state ELSE None

\* the state is set in memory and not saved
set_user_state_unsaved(b, chat_id, state) ==
    LET u == IF chat_id \in DOMAIN b.users
             THEN b.users
             ELSE (chat_id :> DefaultUser) @@ b.users
    IN  [b EXCEPT !.users = [u EXCEPT ![chat_id].state = state]]

set_user_state(b, chat_id, state) ==
    LET u == IF chat_id \in DOMAIN b.users
             THEN b.users
             ELSE (chat_id :> DefaultUser) @@ b.users
    IN  save_user_data([b EXCEPT !.users = [u EXCEPT ![chat_id].state = state]])

\* ------------------------------------------------------------- transport
\* bot.send_message(chat, text, reply_markup): kind names the text, menu is
\* whether main_menu() is attached, data is what the text is formatted from
send_message(b, chat, kind, menu, data) ==
    [b EXCEPT !.outbox = Append(@, [to |-> chat, kind |-> kind, menu |-> menu, data |-> data])]

\* bot.register_next_step_handler(msg, callback)
register_next_step_handler(b, chat, callback) ==
    [b EXCEPT !.next_step_handlers[chat] = Append(@, callback)]

\* an exception that no except clause of the handler catches
Raise(b, exc) == [b EXCEPT !.raised = exc]

\* ------------------------------------------------------------ FinanceBot
RECURSIVE SumAllDays(_, _)
SumAllDays(expenses, today) ==
    IF expenses = << >> THEN Zero
    ELSE NumAdd(Head(expenses).amount, SumAllDays(Tail(expenses), today))

RECURSIVE SumAmounts(_, _)
\* sum(item["amount"] for item in expenses if item["date"] == today)
SumAmounts(expenses, today) ==
    IF expenses = << >> THEN Zero
    ELSE LET rest == SumAmounts(Tail(expenses), today)
         IN  IF Head(expenses).date = today
             THEN NumAdd(Head(expenses).amount, rest)
             ELSE rest

\* the condition of line 190
LimitExceeded(daily_limit, daily_expenses) ==
    NumGt(daily_limit, Zero) /\ NumGt(daily_expenses, daily_limit)

\* check_daily_limit; today is the day datetime.now() gives at line 186
check_daily_limit(b, chat_id, today) ==
    LET daily_expenses == SumAmounts(b.users[chat_id].expenses, today)
        daily_limit == b.users[chat_id].daily_limit
    IN  IF LimitExceeded(daily_limit, daily_expenses)
        THEN send_message(b, chat_id, "warning", FALSE,
                          [daily_limit |-> daily_limit, daily_expenses |-> daily_expenses])
        ELSE b

\* /start stores a word of its own for the idle state
send_welcome_idle(b, message) ==
    send_message(set_user_state(b, message.chat, "idle"), message.chat, "welcome", TRUE, << >>)
\* /start writes the record anew whether it is there or not
send_welcome_reset(b, message) ==
    send_message(
        save_user_data([b EXCEPT !.users = (message.chat :> DefaultUser) @@ b.users]),
        message.chat, "welcome", TRUE, << >>)
send_welcome(b, message) ==
    send_message(set_user_state(b, message.chat, None), message.chat, "welcome", TRUE, << >>)

\* the continuation is registered and the state is not set
add_expense_unset(b, message) ==
    register_next_step_handler(
        send_message(b, message.chat, "prompt_expense", FALSE, << >>),
        message.chat, "process_expense")
add_expense(b, message) ==
    LET b1 == set_user_state(b, message.chat, "add_expense")
        b2 == send_message(b1, message.chat, "prompt_expense", FALSE, << >>)
    IN  register_next_step_handler(b2, message.chat, "process_expense")

\* the continuation of another button is registered
set_daily_limit_wrong_callback(b, message) ==
    LET b1 == set_user_state(b, message.chat, "set_daily_limit")
        b2 == send_message(b1, message.chat, "prompt_daily_limit", FALSE, << >>)
    IN  register_next_step_handler(b2, message.chat, "process_expense")
set_daily_limit(b, message) ==
    LET b1 == set_user_state(b, message.chat, "set_daily_limit")
        b2 == send_message(b1, message.chat, "prompt_daily_limit", FALSE, << >>)
    IN  register_next_step_handler(b2, message.chat, "process_daily_limit")

view_expenses(b, message) ==
    LET b1 == set_user_state(b, message.chat, None)
        expenses == b1.users[message.chat].expenses
    IN  IF expenses = << >>
        THEN send_message(b1, message.chat, "no_expenses", FALSE, << >>)
        ELSE send_message(b1, message.chat, "report", FALSE, expenses)

delete_expense(b, message) ==
    LET b1 == set_user_state(b, message.chat, "delete_expense")
        expenses == b1.users[message.chat].expenses
    IN  IF expenses = << >>
        THEN send_message(b1, message.chat, "nothing_to_delete", FALSE, << >>)
        ELSE register_next_step_handler(
                 send_message(b1, message.chat, "prompt_delete", FALSE,
                     [i \in 1..Len(expenses) |->
                         [category |-> expenses[i].category, amount |-> expenses[i].amount]]),
                 message.chat, "process_delete_expense")

\* list.append
PrependExpense(expenses, item) == << item >> \o expenses
AppendExpense(expenses, item) == Append(expenses, item)

\* list.pop(index), 0-based: the list without that element
PopLast(expenses, index) == SubSeq(expenses, 1, Len(expenses) - 1)
Pop(expenses, index) ==
    SubSeq(expenses, 1, index) \o SubSeq(expenses, index + 2, Len(expenses))

\* 0 <= index < len(expenses), line 169
IndexInRange(index, n) == 0 <= index /\ index < n

\* lines 131-133: the parts of the text, or ValueError
ParseExpenseFirstTwo(text) ==
    LET parts == Split(text)
        amount == IF Len(parts) >= 2 THEN ParseFloat(Strip(parts[2])) ELSE [ok |-> FALSE, val |-> Zero]
    IN  IF Len(parts) >= 2 /\ amount.ok
        THEN [ok |-> TRUE, category |-> Strip(parts[1]), amount |-> amount.val]
        ELSE [ok |-> FALSE, category |-> << >>, amount |-> Zero]
ParseExpense(text) ==
    LET parts == Split(text)
        amount == IF Len(parts) = 2 THEN ParseFloat(Strip(parts[2])) ELSE [ok |-> FALSE, val |-> Zero]
    IN  IF Len(parts) = 2 /\ amount.ok
        THEN [ok |-> TRUE, category |-> Strip(parts[1]), amount |-> amount.val]
        ELSE [ok |-> FALSE, category |-> << >>, amount |-> Zero]

\* process_expense; t1 and t2 are the days datetime.now() gives at lines 134
\* and 186
process_expense(b, message, t1, t2) ==
    LET chat_id == message.chat
        parsed == ParseExpense(message.text)
    IN  IF message.content_type # "text" THEN Raise(b, "AttributeError")
        ELSE IF ~parsed.ok
        THEN send_message(b, chat_id, "format_error", FALSE, << >>)
        ELSE IF chat_id \notin DOMAIN b.users THEN Raise(b, "KeyError")
        ELSE LET item == [category |-> parsed.category, amount |-> parsed.amount,
                          date |-> t1]
                 b1 == save_user_data(
                           [b EXCEPT !.users[chat_id].expenses = AppendExpense(@, item)])
                 b2 == check_daily_limit(b1, chat_id, t2)
                 b3 == send_message(b2, chat_id, "expense_added", TRUE, << >>)
             IN  set_user_state(b3, chat_id, None)

\* the limit check is run when the limit is set, too
process_daily_limit_checked(b, message) ==
    LET chat_id == message.chat
        parsed == ParseFloat(Strip(message.text))
    IN  IF message.content_type # "text" THEN Raise(b, "AttributeError")
        ELSE IF ~parsed.ok
        THEN send_message(b, chat_id, "daily_limit_error", FALSE, << >>)
        ELSE IF chat_id \notin DOMAIN b.users THEN Raise(b, "KeyError")
        ELSE LET b1 == save_user_data([b EXCEPT !.users[chat_id].daily_limit = parsed.val])
                 b2 == send_message(check_daily_limit(b1, chat_id, clock), chat_id,
                                    "daily_limit_set", TRUE, b1.users[chat_id].daily_limit)
             IN  set_user_state(b2, chat_id, None)
process_daily_limit(b, message) ==
    LET chat_id == message.chat
        parsed == ParseFloat(Strip(message.text))
    IN  IF message.content_type # "text" THEN Raise(b, "AttributeError")
        ELSE IF ~parsed.ok
        THEN send_message(b, chat_id, "daily_limit_error", FALSE, << >>)
        ELSE IF chat_id \notin DOMAIN b.users THEN Raise(b, "KeyError")
        ELSE LET b1 == save_user_data([b EXCEPT !.users[chat_id].daily_limit = parsed.val])
                 b2 == send_message(b1, chat_id, "daily_limit_set", TRUE,
                                    b1.users[chat_id].daily_limit)
             IN  set_user_state(b2, chat_id, None)

process_delete_expense(b, message) ==
    LET chat_id == message.chat
        parsed == ParseInt(Strip(message.text))
        index == parsed.val - 1
    IN  IF message.content_type # "text" THEN Raise(b, "AttributeError")
        ELSE IF ~parsed.ok
        THEN send_message(b, chat_id, "enter_number", FALSE, << >>)
        ELSE IF chat_id \notin DOMAIN b.users THEN Raise(b, "KeyError")
        ELSE LET expenses == b.users[chat_id].expenses
             IN  IF IndexInRange(index, Len(expenses))
                 THEN LET deleted == expenses[index + 1]
                          b1 == save_user_data(
                                    [b EXCEPT !.users[chat_id].expenses = Pop(@, index)])
                          b2 == send_message(b1, chat_id, "deleted", TRUE,
                                    [category |-> deleted.category, amount |-> deleted.amount])
                      IN  set_user_state(b2, chat_id, None)
                 ELSE send_message(b, chat_id, "invalid_number", FALSE, << >>)

\* load_user_data, called by __init__ on self.users = {}
load_user_data(b) ==
    IF b.file_exists THEN [b EXCEPT !.users = JsonLoad(b.file)] ELSE b

\* --------------------------------------------------------------- dispatch
NoUsers == [c \in {} |-> DefaultUser]
NoMessage == [chat |-> "", content_type |-> "none", text |-> << >>]

\* commands=['start']: a text message whose first word is /start
IsStartCommand(message) ==
    /\ message.content_type = "text"
    /\ Len(message.text) >= 1
    /\ message.text[1] = CmdStart[1]
    /\ (Len(message.text) > 1 => message.text[2] \in Whitespace)

\* func=lambda message: message.text == label, on text messages
IsButton(message, label) ==
    message.content_type = "text" /\ message.text = label

\* a continuation is registered for the chat: it receives the next message
Pending(chat) == next_step_handlers[chat] # << >>

\* the continuations of the chat are taken off before they run
Popped(chat) == [Bot EXCEPT !.next_step_handlers[chat] = << >>]

Commit(b, op, message, t) ==
    /\ users' = b.users
    /\ file' = b.file
    /\ file_exists' = b.file_exists
    /\ next_step_handlers' = b.next_step_handlers
    /\ outbox' = b.outbox
    /\ raised' = b.raised
    /\ clock' = t
    /\ last' = [op |-> op, message |-> message]
    /\ threads' = threads

Init ==
    /\ users = NoUsers
    /\ file = NoUsers
    /\ file_exists = FALSE
    /\ next_step_handlers = [c \in Chats |-> << >>]
    /\ clock = 0
    /\ outbox = << >>
    /\ raised = "none"
    /\ last = [op |-> "init", message |-> NoMessage]
    /\ threads = [c \in Chats |-> IdleThread]

SendWelcome ==
    \E message \in Messages :
        /\ ~Pending(message.chat)
        /\ IsStartCommand(message)
        /\ Commit(send_welcome(Bot, message), "send_welcome", message, clock)

AddExpense ==
    \E message \in Messages :
        /\ ~Pending(message.chat)
        /\ ~IsStartCommand(message)
        /\ IsButton(message, BtnAddExpense)
        /\ Commit(add_expense(Bot, message), "add_expense", message, clock)

SetDailyLimit ==
    \E message \in Messages :
        /\ ~Pending(message.chat)
        /\ ~IsStartCommand(message)
        /\ IsButton(message, BtnSetDailyLimit)
        /\ Commit(set_daily_limit(Bot, message), "set_daily_limit", message, clock)

ViewExpenses ==
    \E message \in Messages :
        /\ ~Pending(message.chat)
        /\ ~IsStartCommand(message)
        /\ IsButton(message, BtnViewExpenses)
        /\ Commit(view_expenses(Bot, message), "view_expenses", message, clock)

DeleteExpense ==
    \E message \in Messages :
        /\ ~Pending(message.chat)
        /\ ~IsStartCommand(message)
        /\ IsButton(message, BtnDeleteExpense)
        /\ Commit(delete_expense(Bot, message), "delete_expense", message, clock)

\* no continuation is pending and no message handler matches: nothing runs
Unhandled ==
    \E message \in Messages :
        /\ ~Pending(message.chat)
        /\ ~IsStartCommand(message)
        /\ \A label \in {BtnAddExpense, BtnSetDailyLimit, BtnViewExpenses, BtnDeleteExpense} :
              ~IsButton(message, label)
        /\ Commit(Bot, "unhandled", message, clock)

ProcessExpense ==
    \E message \in Messages :
        /\ next_step_handlers[message.chat] = << "process_expense" >>
        /\ (/\ message.chat \in DOMAIN users
            /\ message.content_type = "text"
            /\ ParseExpense(message.text).ok)
              => Len(users[message.chat].expenses) < MaxExpenses
        /\ \E t2 \in {clock, clock + 1} :
              /\ t2 <= MaxClock
              /\ Commit(process_expense(Popped(message.chat), message, clock, t2),
                        "process_expense", message, t2)

ProcessDailyLimit ==
    \E message \in Messages :
        /\ next_step_handlers[message.chat] = << "process_daily_limit" >>
        /\ Commit(process_daily_limit(Popped(message.chat), message),
                  "process_daily_limit", message, clock)

ProcessDeleteExpense ==
    \E message \in Messages :
        /\ next_step_handlers[message.chat] = << "process_delete_expense" >>
        /\ Commit(process_delete_expense(Popped(message.chat), message),
                  "process_delete_expense", message, clock)

\* midnight passes between two messages
Tick ==
    /\ clock < MaxClock
    /\ clock' = clock + 1
    /\ outbox' = << >>
    /\ raised' = "none"
    /\ last' = [op |-> "tick", message |-> NoMessage]
    /\ UNCHANGED << users, file, file_exists, next_step_handlers, threads >>

\* the process is started again: FinanceBot(TOKEN), a new transport object
Restart ==
    LET fresh == [Bot EXCEPT !.users = NoUsers,
                             !.next_step_handlers = [c \in Chats |-> << >>]]
    IN  /\ fresh.users = NoUsers
        /\ Commit(load_user_data(fresh), "restart", NoMessage, clock)

Next ==
    \/ SendWelcome
    \/ AddExpense
    \/ SetDailyLimit
    \/ ViewExpenses
    \/ DeleteExpense
    \/ Unhandled
    \/ ProcessExpense
    \/ ProcessDailyLimit
    \/ ProcessDeleteExpense
    \/ Tick
    \/ Restart

Spec == Init /\ [][Next]_vars

\* ------------------------------------------------ statement granularity
\* The transport runs handlers on worker threads (TeleBot(token), threaded by
\* default): the handlers of two chats interleave statement by statement on
\* self.users and on the file.  One handler runs per chat at a time; one
\* save_user_data call is one write of the whole map.  outbox, raised and
\* last describe whole-handler steps and keep their values here; a thread's
\* messages are in its field sent.  The day does not change meanwhile.
\* Chat "1" sends the command, every button, an expense and a number; chat
\* "2" adds and deletes expenses.
ConcTexts(c) ==
    IF c = "1"
    THEN {CmdStart, BtnAddExpense, BtnSetDailyLimit, BtnViewExpenses, BtnDeleteExpense,
          << "a", ",", "2" >>, << "1" >>}
    ELSE {BtnAddExpense, BtnDeleteExpense, << "a", ",", "2" >>, << "1" >>}

ConcMessages ==
    {m \in [chat : ConcChats, content_type : {"text"},
            text : UNION {ConcTexts(c) : c \in ConcChats}] : m.text \in ConcTexts(m.chat)}

\* a statement of a handler: what it does and the constant it does it with
St(s, arg) == [s |-> s, arg |-> arg]

\* the statements of a branch, and the handler's return after them
Body(stmts) == stmts \o << St("return", "-") >>

\* set_user_state with the file written before the state is assigned
SetUserStateStmtsSaveFirst(state) ==
    << St("create_record", "-"), St("save", "-"), St("assign_state", state) >>
\* set_user_state, lines 40-44
SetUserStateStmts(state) ==
    << St("create_record", "-"), St("assign_state", state), St("save", "-") >>

\* the statements a handler starts with; lines 55-64, 66-72, 74-80, 82-85,
\* 98-103, 129-131, 149-150, 165-167
Stmts(op) ==
    CASE op = "send_welcome" ->
            SetUserStateStmts(None) \o << St("send", "welcome") >>
      [] op = "add_expense" ->
            SetUserStateStmts("add_expense")
               \o << St("send", "prompt_expense"), St("register", "process_expense") >>
      [] op = "set_daily_limit" ->
            SetUserStateStmts("set_daily_limit")
               \o << St("send", "prompt_daily_limit"), St("register", "process_daily_limit") >>
      [] op = "view_expenses" ->
            SetUserStateStmts(None) \o << St("if_empty", "-") >>
      [] op = "delete_expense" ->
            SetUserStateStmts("delete_expense") \o << St("if_empty", "-") >>
      [] op = "process_expense" -> << St("parse_expense", "-") >>
      [] op = "process_daily_limit" -> << St("assign_limit", "-") >>
      [] op = "process_delete_expense" -> << St("parse_index", "-") >>
      [] op = "unhandled" -> << >>

\* the success reply is sent before the expense is appended and saved
ExpenseParsedStmtsReplyFirst ==
    << St("now", "-"), St("send", "expense_added"), St("append", "-"), St("save", "-"),
       St("check", "-") >> \o SetUserStateStmts(None)
\* process_expense after the text is parsed, lines 134-142
ExpenseParsedStmts ==
    << St("now", "-"), St("append", "-"), St("save", "-"), St("check", "-"),
       St("send", "expense_added") >> \o SetUserStateStmts(None)

\* process_daily_limit after line 150, lines 151-157
LimitAssignedStmts ==
    << St("save", "-"), St("send", "daily_limit_set") >> \o SetUserStateStmts(None)

\* process_delete_expense inside the if of line 169, lines 170-177
IndexInRangeStmts ==
    << St("pop", "-"), St("save", "-"), St("send", "deleted") >> \o SetUserStateStmts(None)

\* the branches of lines 86-93 and 104-114
IfEmptyStmts(op, expenses) ==
    CASE op = "view_expenses" /\ expenses = << >> -> << St("send", "no_expenses") >>
      [] op = "view_expenses" /\ expenses # << >> -> << St("send", "report") >>
      [] op = "delete_expense" /\ expenses = << >> -> << St("send", "nothing_to_delete") >>
      [] op = "delete_expense" /\ expenses # << >> ->
            << St("send", "prompt_delete"), St("register", "process_delete_expense") >>

\* reply_markup=self.main_menu() is passed with these texts
HasMenu(kind) == kind \in {"welcome", "expense_added", "daily_limit_set", "deleted"}

\* what the text of a message is formatted from, lines 89-93, 107-112, 153, 174
SendData(kind, b, chat_id, th) ==
    CASE kind = "report" -> b.users[chat_id].expenses
      [] kind = "prompt_delete" ->
            [i \in 1..Len(b.users[chat_id].expenses) |->
                [category |-> b.users[chat_id].expenses[i].category,
                 amount |-> b.users[chat_id].expenses[i].amount]]
      [] kind = "daily_limit_set" -> b.users[chat_id].daily_limit
      [] kind = "deleted" -> th.deleted
      [] OTHER -> << >>

\* the handler the transport gives the message to
HandlerFor(message) ==
    IF Pending(message.chat) THEN next_step_handlers[message.chat][1]
    ELSE IF IsStartCommand(message) THEN "send_welcome"
    ELSE IF IsButton(message, BtnAddExpense) THEN "add_expense"
    ELSE IF IsButton(message, BtnSetDailyLimit) THEN "set_daily_limit"
    ELSE IF IsButton(message, BtnViewExpenses) THEN "view_expenses"
    ELSE IF IsButton(message, BtnDeleteExpense) THEN "delete_expense"
    ELSE "unhandled"

\* the bot as the thread of the chat sees it
ThreadBot(c) == [Bot EXCEPT !.outbox = threads[c].sent]

\* the statement the thread of the chat runs next
AtStmt(c, s) == threads[c].rest # << >> /\ Head(threads[c].rest).s = s

\* the thread of the chat has run a statement: b is the bot after it, th the
\* thread
ConcCommit(c, b, th) ==
    /\ users' = b.users
    /\ file' = b.file
    /\ file_exists' = b.file_exists
    /\ next_step_handlers' = b.next_step_handlers
    /\ threads' = [threads EXCEPT ![c] = [th EXCEPT !.sent = b.outbox]]
    /\ UNCHANGED << clock, outbox, raised, last >>

\* the thread with its first statement done
Advance(th) == [th EXCEPT !.rest = Tail(@)]

\* the thread after an exception that the handler does not catch
Killed(th) == [th EXCEPT !.rest = Body(<< >>)]

InitConc ==
    /\ users = NoUsers
    /\ file = NoUsers
    /\ file_exists = FALSE
    /\ next_step_handlers = [c \in ConcChats |-> << >>]
    /\ clock = 0
    /\ outbox = << >>
    /\ raised = "none"
    /\ last = [op |-> "init", message |-> NoMessage]
    /\ threads = [c \in ConcChats |-> IdleThread]

\* a message of an idle chat is given to its handler on a worker thread
Receive ==
    \E message \in ConcMessages :
        LET c == message.chat
            op == HandlerFor(message)
        IN  /\ threads[c].rest = << >>
            /\ (op = "process_expense" /\ ParseExpense(message.text).ok /\ c \in DOMAIN users)
                  => Len(users[c].expenses) < MaxConcExpenses
            /\ ConcCommit(c, [Popped(c) EXCEPT !.outbox = << >>],
                   [IdleThread EXCEPT
                       !.op = op, !.message = message, !.rest = Body(Stmts(op)),
                       !.before = IF c \in DOMAIN users
                                  THEN [present |-> TRUE, rec |-> users[c]]
                                  ELSE [present |-> FALSE, rec |-> DefaultUser]])

\* lines 41-42
CreateRecord ==
    \E c \in ConcChats :
        /\ AtStmt(c, "create_record")
        /\ ConcCommit(c,
               [ThreadBot(c) EXCEPT !.users = IF c \in DOMAIN users THEN users
                                              ELSE (c :> DefaultUser) @@ users],
               Advance(threads[c]))

\* line 43
AssignState ==
    \E c \in ConcChats :
        /\ AtStmt(c, "assign_state")
        /\ ConcCommit(c,
               [ThreadBot(c) EXCEPT !.users[c].state = Head(threads[c].rest).arg],
               Advance(threads[c]))

\* save_user_data() at lines 44, 136, 151, 171
SaveStmt ==
    \E c \in ConcChats :
        /\ AtStmt(c, "save")
        /\ ConcCommit(c, save_user_data(ThreadBot(c)), Advance(threads[c]))

\* self.bot.send_message(...)
SendStmt ==
    \E c \in ConcChats :
        /\ AtStmt(c, "send")
        /\ LET kind == Head(threads[c].rest).arg
           IN  ConcCommit(c,
                   send_message(ThreadBot(c), c, kind, HasMenu(kind),
                                SendData(kind, ThreadBot(c), c, threads[c])),
                   Advance(threads[c]))

\* self.bot.register_next_step_handler(msg, ...)
RegisterStmt ==
    \E c \in ConcChats :
        /\ AtStmt(c, "register")
        /\ ConcCommit(c,
               register_next_step_handler(ThreadBot(c), c, Head(threads[c].rest).arg),
               Advance(threads[c]))

\* lines 85-86 and 103-104
IfEmpty ==
    \E c \in ConcChats :
        /\ AtStmt(c, "if_empty")
        /\ ConcCommit(c, ThreadBot(c),
               [threads[c] EXCEPT !.rest = Body(IfEmptyStmts(threads[c].op, users[c].expenses))])

\* lines 131-133; ValueError goes to line 145
ParseExpenseStmt ==
    \E c \in ConcChats :
        /\ AtStmt(c, "parse_expense")
        /\ ConcCommit(c, ThreadBot(c),
               [threads[c] EXCEPT !.rest = IF ParseExpense(threads[c].message.text).ok
                                           THEN Body(ExpenseParsedStmts)
                                           ELSE Body(<< St("send", "format_error") >>)])

\* line 134
NowStmt ==
    \E c \in ConcChats :
        /\ AtStmt(c, "now")
        /\ ConcCommit(c, ThreadBot(c), [Advance(threads[c]) EXCEPT !.date = clock])

\* line 135
AppendStmt ==
    \E c \in ConcChats :
        /\ AtStmt(c, "append")
        /\ LET parsed == ParseExpense(threads[c].message.text)
               item == [category |-> parsed.category, amount |-> parsed.amount,
                        date |-> threads[c].date]
           IN  IF c \in DOMAIN users
               THEN ConcCommit(c,
                        [ThreadBot(c) EXCEPT !.users[c].expenses = AppendExpense(@, item)],
                        Advance(threads[c]))
               ELSE ConcCommit(c, ThreadBot(c), Killed(threads[c]))

\* line 139: check_daily_limit reads the record of its own chat only
CheckStmt ==
    \E c \in ConcChats :
        /\ AtStmt(c, "check")
        /\ ConcCommit(c, check_daily_limit(ThreadBot(c), c, clock), Advance(threads[c]))

\* line 150; ValueError goes to line 161
AssignLimit ==
    \E c \in ConcChats :
        /\ AtStmt(c, "assign_limit")
        /\ LET parsed == ParseFloat(Strip(threads[c].message.text))
           IN  IF ~parsed.ok
               THEN ConcCommit(c, ThreadBot(c),
                        [threads[c] EXCEPT !.rest = Body(<< St("send", "daily_limit_error") >>)])
               ELSE IF c \in DOMAIN users
               THEN ConcCommit(c,
                        [ThreadBot(c) EXCEPT !.users[c].daily_limit = parsed.val],
                        [threads[c] EXCEPT !.rest = Body(LimitAssignedStmts)])
               ELSE ConcCommit(c, ThreadBot(c), Killed(threads[c]))

\* line 167; ValueError goes to line 182
ParseIndex ==
    \E c \in ConcChats :
        /\ AtStmt(c, "parse_index")
        /\ ConcCommit(c, ThreadBot(c),
               [threads[c] EXCEPT !.rest = IF ParseInt(Strip(threads[c].message.text)).ok
                                           THEN Body(<< St("if_range", "-") >>)
                                           ELSE Body(<< St("send", "enter_number") >>)])

\* lines 168-169
IfRange ==
    \E c \in ConcChats :
        /\ AtStmt(c, "if_range")
        /\ LET index == ParseInt(Strip(threads[c].message.text)).val - 1
           IN  IF c \in DOMAIN users
               THEN ConcCommit(c, ThreadBot(c),
                        [threads[c] EXCEPT !.rest =
                            IF IndexInRange(index, Len(users[c].expenses))
                            THEN Body(IndexInRangeStmts)
                            ELSE Body(<< St("send", "invalid_number") >>)])
               ELSE ConcCommit(c, ThreadBot(c), Killed(threads[c]))

\* line 170
PopStmt ==
    \E c \in ConcChats :
        /\ AtStmt(c, "pop")
        /\ LET index == ParseInt(Strip(threads[c].message.text)).val - 1
               deleted == users[c].expenses[index + 1]
           IN  ConcCommit(c,
                   [ThreadBot(c) EXCEPT !.users[c].expenses = Pop(@, index)],
                   [Advance(threads[c]) EXCEPT
                       !.deleted = [category |-> deleted.category, amount |-> deleted.amount]])

\* the handler returns and the worker thread is free again
Return ==
    \E c \in ConcChats :
        /\ AtStmt(c, "return")
        /\ ConcCommit(c, [ThreadBot(c) EXCEPT !.outbox = << >>], IdleThread)

NextConc ==
    \/ Receive
    \/ CreateRecord
    \/ AssignState
    \/ SaveStmt
    \/ SendStmt
    \/ RegisterStmt
    \/ IfEmpty
    \/ ParseExpenseStmt
    \/ NowStmt
    \/ AppendStmt
    \/ CheckStmt
    \/ AssignLimit
    \/ ParseIndex
    \/ IfRange
    \/ PopStmt
    \/ Return

SpecConc == InitConc /\ [][NextConc]_vars

\* =================================================================== claims
\* What the claims speak of, stated apart from the handlers' own definitions.
HandlerOps ==
    {"send_welcome", "add_expense", "set_daily_limit", "view_expenses", "delete_expense",
     "process_expense", "process_daily_limit", "process_delete_expense"}

\* the operations that are an inbound message (handled or not)
MessageOps == HandlerOps \cup {"unhandled"}

CommaCount(t) == Cardinality({i \in 1..Len(t) : t[i] = ","})
CommaAt(t) == CHOOSE i \in 1..Len(t) : t[i] = ","
LeftOfComma(t) == SubSeq(t, 1, CommaAt(t) - 1)
RightOfComma(t) == SubSeq(t, CommaAt(t) + 1, Len(t))

\* r is s without its leading and trailing whitespace
IsTrimOf(r, s) ==
    \E i \in 1..(Len(s) + 1) : \E j \in 0..Len(s) :
        /\ r = SubSeq(s, i, j)
        /\ \A k \in 1..(i - 1) : s[k] \in Whitespace
        /\ \A k \in (j + 1)..Len(s) : s[k] \in Whitespace
        /\ r # << >> => (r[1] \notin Whitespace /\ r[Len(r)] \notin Whitespace)

\* "<category>, <amount>": exactly one comma and a numeric amount
ValidExpenseText(t) == CommaCount(t) = 1 /\ ParseFloat(RightOfComma(t)).ok

IsText(message) == message.content_type = "text"

\* an integer text: an optional sign and one or more digits, with whitespace
\* around at most
IsIntegerText(t) ==
    \E r \in {SubSeq(t, i, j) : i \in 1..(Len(t) + 1), j \in 0..Len(t)} :
        /\ IsTrimOf(r, t)
        /\ Unsigned(r) # << >>
        /\ AllDigits(Unsigned(r))

\* the integer an integer text denotes
IntegerOf(t) ==
    LET r == CHOOSE x \in {SubSeq(t, i, j) : i \in 1..(Len(t) + 1), j \in 0..Len(t)} :
                 IsTrimOf(x, t)
    IN  SignOf(r) * DigitsVal(Unsigned(r))

Kinds(box) == [i \in 1..Len(box) |-> box[i].kind]

\* C1: for a user awaiting an expense and a text "<category>, <amount>" with
\* exactly one comma and a numeric amount, process_expense appends exactly one
\* expense at the end of the user's list (the earlier ones keep their values and
\* order); the new record has the trimmed left part as category, the parsed
\* right part as amount and the current day as date; the state becomes None.
C1_ExpenseAppended ==
    [][ (/\ last'.op = "process_expense"
         /\ IsText(last'.message)
         /\ ValidExpenseText(last'.message.text))
        => LET c == last'.message.chat
               t == last'.message.text
           IN  /\ c \in DOMAIN users /\ c \in DOMAIN users'
               /\ users[c].state = "add_expense"
               /\ LET old == users[c].expenses
                      new == users'[c].expenses
                  IN  /\ Len(new) = Len(old) + 1
                      /\ SubSeq(new, 1, Len(old)) = old
                      /\ IsTrimOf(new[Len(new)].category, LeftOfComma(t))
                      /\ new[Len(new)].amount = ParseFloat(RightOfComma(t)).val
                      /\ new[Len(new)].date = clock
               /\ users'[c].daily_limit = users[c].daily_limit
               /\ users'[c].state = None
               /\ "expense_added" \in {outbox'[i].kind : i \in 1..Len(outbox')} ]_vars

\* C1 witness: a second expense was appended from a text with whitespace
\* around the category and the amount, after an earlier expense
C1_Witness ==
    /\ last.op = "process_expense"
    /\ IsText(last.message)
    /\ ValidExpenseText(last.message.text)
    /\ LeftOfComma(last.message.text) = << " ", "b", " " >>
    /\ last.message.chat \in DOMAIN users
    /\ Len(users[last.message.chat].expenses) = 2
    /\ users[last.message.chat].expenses[1].category = << "a" >>
    /\ users[last.message.chat].expenses[2].category = << "b" >>
    /\ users[last.message.chat].expenses[2].amount = [m |-> -15, e |-> 1]
    /\ users[last.message.chat].state = None

\* C2: for an expense input with no comma, more than one comma or a
\* non-numeric amount, process_expense leaves the in-memory store and the
\* persisted file unchanged, sends the format-error reply only, and the state
\* field remains "add_expense".
C2_BadExpenseRejected ==
    [][ (/\ last'.op = "process_expense"
         /\ IsText(last'.message)
         /\ ~ValidExpenseText(last'.message.text))
        => /\ users' = users
           /\ file' = file
           /\ file_exists' = file_exists
           /\ Kinds(outbox') = << "format_error" >>
           /\ last'.message.chat \in DOMAIN users'
           /\ users'[last'.message.chat].state = "add_expense" ]_vars

\* C2 witness: a text with two commas was refused while an expense is stored
C2_Witness ==
    /\ last.op = "process_expense"
    /\ IsText(last.message)
    /\ CommaCount(last.message.text) = 2
    /\ Kinds(outbox) = << "format_error" >>
    /\ last.message.chat \in DOMAIN users
    /\ users[last.message.chat].expenses # << >>
    /\ users[last.message.chat].state = "add_expense"

ErrorReplies ==
    {<< "format_error" >>, << "daily_limit_error" >>, << "invalid_number" >>, << "enter_number" >>}

ProcessOps == {"process_expense", "process_daily_limit", "process_delete_expense"}

\* C3: after a malformed input in an awaiting state (the parser replied with
\* its error), the user's next text message is handled by the same parser
\* again.
C3_RetryReachesSameParser ==
    [][ (/\ last.op \in ProcessOps
         /\ IsText(last.message)
         /\ Kinds(outbox) \in ErrorReplies
         /\ last'.op \in MessageOps
         /\ IsText(last'.message)
         /\ last'.message.chat = last.message.chat)
        => last'.op = last.op ]_vars

\* the i-th element taken out of a list
Without(old, i) ==
    [j \in 1..(Len(old) - 1) |-> IF j < i THEN old[j] ELSE old[j + 1]]

\* C4: for a user awaiting a delete index with n expenses and an integer text
\* i with 1 <= i <= n, process_delete_expense removes exactly the i-th expense,
\* the other n-1 keep their values and order, daily_limit is unchanged, the
\* reply names the removed item, and the state becomes None.
C4_DeleteRemovesIth ==
    [][ (/\ last'.op = "process_delete_expense"
         /\ IsText(last'.message)
         /\ last'.message.chat \in DOMAIN users
         /\ IsIntegerText(last'.message.text)
         /\ IntegerOf(last'.message.text) \in 1..Len(users[last'.message.chat].expenses))
        => LET c == last'.message.chat
               i == IntegerOf(last'.message.text)
               old == users[c].expenses
           IN  /\ users[c].state = "delete_expense"
               /\ c \in DOMAIN users'
               /\ users'[c].expenses = Without(old, i)
               /\ users'[c].daily_limit = users[c].daily_limit
               /\ users'[c].state = None
               /\ Kinds(outbox') = << "deleted" >>
               /\ outbox'[1].data = [category |-> old[i].category, amount |-> old[i].amount] ]_vars

\* C4 witness: the first of two different expenses was deleted; the second
\* one is what remains
C4_Witness ==
    /\ last.op = "process_delete_expense"
    /\ IsText(last.message)
    /\ last.message.text = << "1" >>
    /\ Kinds(outbox) = << "deleted" >>
    /\ outbox[1].data.category = << "a" >>
    /\ last.message.chat \in DOMAIN users
    /\ Len(users[last.message.chat].expenses) = 1
    /\ users[last.message.chat].expenses[1].category = << "b" >>

\* C5: for a user awaiting a delete index with n expenses, an integer text
\* outside [1, n] and a non-integer text leave the expense list, daily_limit,
\* the state field ("delete_expense") and the persisted file unchanged; the
\* reply is "invalid number" for an integer, "enter a number" for a non-integer.
C5_BadIndexRejected ==
    [][ (/\ last'.op = "process_delete_expense"
         /\ IsText(last'.message)
         /\ last'.message.chat \in DOMAIN users
         /\ ~(/\ IsIntegerText(last'.message.text)
              /\ IntegerOf(last'.message.text) \in 1..Len(users[last'.message.chat].expenses)))
        => /\ users' = users
           /\ file' = file
           /\ file_exists' = file_exists
           /\ users'[last'.message.chat].state = "delete_expense"
           /\ Kinds(outbox') =
                 IF IsIntegerText(last'.message.text)
                 THEN << "invalid_number" >>
                 ELSE << "enter_number" >> ]_vars

\* C5 witness: index 0 was refused as an invalid number while expenses exist
C5_Witness ==
    /\ last.op = "process_delete_expense"
    /\ IsText(last.message)
    /\ last.message.text = << "0" >>
    /\ Kinds(outbox) = << "invalid_number" >>
    /\ last.message.chat \in DOMAIN users
    /\ Len(users[last.message.chat].expenses) = 2
    /\ users[last.message.chat].state = "delete_expense"

\* the amounts of the first n expenses that are dated day, added up
RECURSIVE TotalOn(_, _, _)
TotalOn(expenses, day, n) ==
    IF n = 0 THEN Zero
    ELSE IF expenses[n].date = day
         THEN NumAdd(TotalOn(expenses, day, n - 1), expenses[n].amount)
         ELSE TotalOn(expenses, day, n - 1)

WarningCount(box) == Cardinality({i \in 1..Len(box) : box[i].kind = "warning"})

\* C6: each successful expense insertion sends exactly one warning if
\* daily_limit > 0 and the sum of the amounts of the user's expenses dated today
\* (the list with the new one) is strictly greater than daily_limit, and no
\* warning otherwise; expenses of other days are not counted.  Today is the day
\* the check reads.
C6_WarningIffOverLimit ==
    [][ (/\ last'.op = "process_expense"
         /\ IsText(last'.message)
         /\ ValidExpenseText(last'.message.text)
         /\ last'.message.chat \in DOMAIN users')
        => LET c == last'.message.chat
               limit == users'[c].daily_limit
               total == TotalOn(users'[c].expenses, clock', Len(users'[c].expenses))
           IN  /\ WarningCount(outbox') =
                     IF NumGt(limit, Zero) /\ NumGt(total, limit) THEN 1 ELSE 0
               /\ \A i \in 1..Len(outbox') :
                     outbox'[i].kind = "warning"
                        => outbox'[i].data = [daily_limit |-> limit, daily_expenses |-> total] ]_vars

\* C6 witness: a warning was sent for today's total while an expense of another
\* day is stored whose amount would have kept the total of all days within the
\* limit
C6_Witness ==
    /\ last.op = "process_expense"
    /\ WarningCount(outbox) = 1
    /\ last.message.chat \in DOMAIN users
    /\ LET e == users[last.message.chat].expenses
       IN  /\ Len(e) = 2
           /\ e[1].date # clock
           /\ e[2].date = clock
           /\ ~NumGt(NumAdd(e[1].amount, e[2].amount), users[last.message.chat].daily_limit)

\* C6 second case: no warning at the boundary, today's total equal to the limit
C6_WitnessBoundary ==
    /\ last.op = "process_expense"
    /\ WarningCount(outbox) = 0
    /\ Kinds(outbox) = << "expense_added" >>
    /\ last.message.chat \in DOMAIN users
    /\ NumGt(users[last.message.chat].daily_limit, Zero)
    /\ TotalOn(users[last.message.chat].expenses, clock,
               Len(users[last.message.chat].expenses)) = users[last.message.chat].daily_limit

\* C7: from any conversation state, a "/start" message results in the welcome
\* message with the menu and the state None, expenses and daily_limit
\* unchanged, a registered continuation receiving the next message.
C7_StartResetsFromAnyState ==
    [][ (/\ last'.op \in MessageOps
         /\ IsText(last'.message)
         /\ last'.message.text = CmdStart)
        => LET c == last'.message.chat
           IN  /\ c \in DOMAIN users'
               /\ users'[c].state = None
               /\ Kinds(outbox') = << "welcome" >>
               /\ outbox'[1].menu
               /\ c \in DOMAIN users =>
                     /\ users'[c].expenses = users[c].expenses
                     /\ users'[c].daily_limit = users[c].daily_limit ]_vars

\* C8: whenever a handler has finished, the persisted file holds the in-memory
\* user-record map (and it does so whenever the file exists).
C8_FileEqualsMemory ==
    /\ last.op \in HandlerOps => file_exists
    /\ file_exists => (file = JsonDump(users) /\ JsonLoad(file) = users)

\* C8 witness: an expense was deleted and /start handled; the file holds the
\* remaining expense and the null state
C8_Witness ==
    /\ last.op = "send_welcome"
    /\ file_exists
    /\ last.message.chat \in DOMAIN file
    /\ Len(file[last.message.chat].expenses) = 1
    /\ file[last.message.chat].daily_limit # Zero
    /\ file[last.message.chat].state = JsonNull
    /\ users[last.message.chat].state = None

\* the handlers that call set_user_state before anything else
ButtonOps ==
    {"send_welcome", "add_expense", "set_daily_limit", "view_expenses", "delete_expense"}

\* the state each of these handlers sets
TargetState(op) ==
    CASE op = "send_welcome" -> None
      [] op = "add_expense" -> "add_expense"
      [] op = "set_daily_limit" -> "set_daily_limit"
      [] op = "view_expenses" -> None
      [] op = "delete_expense" -> "delete_expense"

\* C9 as stated: after the first inbound message of an unknown chat id has been
\* handled, whatever its text, the map holds a record for that user.
C9_AnyFirstMessageCreates ==
    [][ (/\ last'.op \in MessageOps
         /\ last'.message.chat \notin DOMAIN users)
        => last'.message.chat \in DOMAIN users' ]_vars

\* C9 amended: a record is created by the first /start or menu-button message
\* of an unknown chat id, and by nothing else (a message no handler matches
\* creates none); it then has empty expenses, daily_limit 0 and the state that
\* handler sets (None for /start and "View expenses"); a record that exists
\* is never removed nor reset: daily_limit changes in process_daily_limit
\* only, and the expenses change only by the one appended in process_expense
\* and the one removed in process_delete_expense.
C9_RecordCreatedByCommandOrButton ==
    [][ \A c \in Chats :
          /\ (c \notin DOMAIN users /\ c \in DOMAIN users')
                => /\ last'.op \in ButtonOps
                   /\ last'.message.chat = c
                   /\ users'[c] = [expenses |-> << >>, daily_limit |-> Zero,
                                   state |-> TargetState(last'.op)]
          /\ (c \notin DOMAIN users /\ last'.op \in ButtonOps /\ last'.message.chat = c)
                => c \in DOMAIN users'
          /\ (c \notin DOMAIN users /\ last'.op \notin ButtonOps)
                => c \notin DOMAIN users'
          /\ c \in DOMAIN users
                => /\ c \in DOMAIN users'
                   /\ last'.op # "process_daily_limit"
                         => users'[c].daily_limit = users[c].daily_limit
                   /\ last'.op \notin {"process_expense", "process_delete_expense"}
                         => users'[c].expenses = users[c].expenses
                   /\ last'.op = "process_expense"
                         => SubSeq(users'[c].expenses, 1, Len(users[c].expenses))
                               = users[c].expenses
                   /\ last'.op = "process_delete_expense"
                         => Len(users'[c].expenses) >= Len(users[c].expenses) - 1 ]_vars

\* C9 witness: a record with an expense and a limit has been through a later
\* menu-button message and keeps both
C9_Witness ==
    /\ last.op = "delete_expense"
    /\ last.message.chat \in DOMAIN users
    /\ users[last.message.chat].expenses # << >>
    /\ users[last.message.chat].daily_limit # Zero
    /\ users[last.message.chat].state = "delete_expense"

\* C9 second case: the first message of an unknown chat matched no handler
C9_WitnessUnhandled ==
    /\ last.op = "unhandled"
    /\ last.message.chat \notin DOMAIN users

\* C10: in every reachable state every user's daily_limit is non-negative.
C10_DailyLimitNonNegative ==
    \A c \in DOMAIN users : ~NumGt(Zero, users[c].daily_limit)

\* C11: in every reachable state every stored expense has a strictly positive
\* amount.
C11_AmountsPositive ==
    \A c \in DOMAIN users :
        \A i \in 1..Len(users[c].expenses) : NumGt(users[c].expenses[i].amount, Zero)

\* C12: a warning is sent only by a successful expense insertion: never by the
\* set-limit, delete-expense, view-expenses or /start handlers, nor by a failed
\* expense input.
C12_WarningOnlyAfterInsertion ==
    WarningCount(outbox) > 0
        => /\ last.op = "process_expense"
           /\ IsText(last.message)
           /\ ValidExpenseText(last.message.text)
           /\ "expense_added" \in {outbox[i].kind : i \in 1..Len(outbox)}

\* C12 witness: a limit was set below today's total and no warning was sent
C12_Witness ==
    /\ last.op = "process_daily_limit"
    /\ Kinds(outbox) = << "daily_limit_set" >>
    /\ last.message.chat \in DOMAIN users
    /\ NumGt(users[last.message.chat].daily_limit, Zero)
    /\ NumGt(TotalOn(users[last.message.chat].expenses, clock,
                     Len(users[last.message.chat].expenses)),
             users[last.message.chat].daily_limit)

\* C12 second case: after a deletion today's total still exceeds the limit and
\* no warning was sent
C12_WitnessDelete ==
    /\ last.op = "process_delete_expense"
    /\ Kinds(outbox) = << "deleted" >>
    /\ last.message.chat \in DOMAIN users
    /\ NumGt(users[last.message.chat].daily_limit, Zero)
    /\ NumGt(TotalOn(users[last.message.chat].expenses, clock,
                     Len(users[last.message.chat].expenses)),
             users[last.message.chat].daily_limit)

\* C13: whenever a user's state is "delete_expense", an integer text outside
\* [1, count] from that user is answered with the "invalid number" reply and
\* the state stays "delete_expense"; so after "Delete expense" was pressed with
\* an empty expense list, too.
C13_OutOfRangeAlwaysAnswered ==
    [][ (/\ last'.op \in MessageOps
         /\ IsText(last'.message)
         /\ last'.message.chat \in DOMAIN users
         /\ users[last'.message.chat].state = "delete_expense"
         /\ IsIntegerText(last'.message.text)
         /\ IntegerOf(last'.message.text)
               \notin 1..Len(users[last'.message.chat].expenses))
        => /\ Kinds(outbox') = << "invalid_number" >>
           /\ last'.message.chat \in DOMAIN users'
           /\ users'[last'.message.chat].state = "delete_expense" ]_vars

\* the texts that are neither the command nor a menu button
FreeTexts ==
    Texts \ {CmdStart, BtnAddExpense, BtnSetDailyLimit, BtnViewExpenses, BtnDeleteExpense}

\* the parser that belongs to an awaiting state
ParserOf(state) ==
    CASE state = "add_expense" -> "process_expense"
      [] state = "set_daily_limit" -> "process_daily_limit"
      [] state = "delete_expense" -> "process_delete_expense"

AwaitStates == {"add_expense", "set_daily_limit", "delete_expense"}

\* C14: if a user's persisted state is an awaiting state and the process is
\* restarted and reloads the store, the state is still that value and the
\* user's next free-text message is handled by the parser of that state.
C14_PromptSurvivesRestart ==
    [][ (/\ last.op = "restart"
         /\ last'.op \in MessageOps
         /\ IsText(last'.message)
         /\ last'.message.text \in FreeTexts
         /\ last'.message.chat \in DOMAIN users
         /\ users[last'.message.chat].state \in AwaitStates)
        => last'.op = ParserOf(users[last'.message.chat].state) ]_vars

\* C16: in every reachable state every record's state field is one of None,
\* "add_expense", "set_daily_limit", "delete_expense"; and every change of the
\* state field is a button press to its awaiting state, or /start, "View
\* expenses" or a successful parse to None.
C16_StateValuesAndChanges ==
    [][ \A c \in DOMAIN users' :
          /\ users'[c].state \in AwaitStates \cup {None}
          /\ (c \notin DOMAIN users \/ users'[c].state # users[c].state)
                => /\ last'.message.chat = c
                   /\ \/ /\ last'.op \in ButtonOps
                         /\ IsText(last'.message)
                         /\ last'.message.text =
                               (CASE last'.op = "send_welcome" -> CmdStart
                                  [] last'.op = "add_expense" -> BtnAddExpense
                                  [] last'.op = "set_daily_limit" -> BtnSetDailyLimit
                                  [] last'.op = "view_expenses" -> BtnViewExpenses
                                  [] last'.op = "delete_expense" -> BtnDeleteExpense)
                         /\ users'[c].state = TargetState(last'.op)
                      \/ /\ last'.op \in ProcessOps
                         /\ c \in DOMAIN users
                         /\ users[c].state \in AwaitStates
                         /\ last'.op = ParserOf(users[c].state)
                         /\ Kinds(outbox')[Len(outbox')]
                               \in {"expense_added", "daily_limit_set", "deleted"}
                         /\ users'[c].state = None ]_vars

\* C16 witness: a button was pressed in another awaiting state whose
\* continuation was used up, and the state changed to the button's state
C16_Witness ==
    /\ last.op = "set_daily_limit"
    /\ last.message.chat \in DOMAIN users
    /\ users[last.message.chat].state = "set_daily_limit"
    /\ users[last.message.chat].expenses # << >>
    /\ file_exists
    /\ file[last.message.chat].state = "set_daily_limit"

\* a numeric text: an optional sign, digits with at most one point and at
\* least one digit, with whitespace around at most
IsNumericText(t) ==
    \E r \in {SubSeq(t, i, j) : i \in 1..(Len(t) + 1), j \in 0..Len(t)} :
        /\ IsTrimOf(r, t)
        /\ Cardinality({i \in 1..Len(Unsigned(r)) : Unsigned(r)[i] = "."}) <= 1
        /\ \A i \in 1..Len(Unsigned(r)) : Unsigned(r)[i] \in Digits \cup {"."}
        /\ \E i \in 1..Len(Unsigned(r)) : Unsigned(r)[i] \in Digits

\* the number a numeric text denotes
NumberOf(t) ==
    LET r == CHOOSE x \in {SubSeq(t, i, j) : i \in 1..(Len(t) + 1), j \in 0..Len(t)} :
                 IsTrimOf(x, t)
        d == Unsigned(r)
        point == {i \in 1..Len(d) : d[i] = "."}
        after == IF point = {} THEN 0 ELSE Len(d) - (CHOOSE i \in point : TRUE)
        digits == SelectSeq(d, LAMBDA ch : ch \in Digits)
    IN  Norm(SignOf(r) * DigitsVal(digits), after)

\* C17: for a user awaiting the limit, numeric text sets daily_limit to the
\* parsed value, leaves the expenses, persists, sends the confirmation and
\* sets the state None; non-numeric text leaves daily_limit, expenses, the
\* file and the state field ("set_daily_limit") unchanged and sends the error.
C17_DailyLimitSetOrRefused ==
    [][ (last'.op = "process_daily_limit" /\ IsText(last'.message))
        => LET c == last'.message.chat
               t == last'.message.text
           IN  /\ c \in DOMAIN users /\ c \in DOMAIN users'
               /\ users[c].state = "set_daily_limit"
               /\ users'[c].expenses = users[c].expenses
               /\ IsNumericText(t)
                     => /\ users'[c].daily_limit = NumberOf(t)
                        /\ users'[c].state = None
                        /\ file_exists' /\ file' = JsonDump(users')
                        /\ Kinds(outbox') = << "daily_limit_set" >>
                        /\ outbox'[1].data = NumberOf(t)
               /\ ~IsNumericText(t)
                     => /\ users' = users
                        /\ file' = file /\ file_exists' = file_exists
                        /\ Kinds(outbox') = << "daily_limit_error" >> ]_vars

\* C17 witness: a limit with a fraction replaced an earlier limit while an
\* expense is stored
C17_Witness ==
    /\ last.op = "process_daily_limit"
    /\ last.message.text = << "1", ".", "5" >>
    /\ last.message.chat \in DOMAIN users
    /\ users[last.message.chat].daily_limit = [m |-> 15, e |-> 1]
    /\ users[last.message.chat].expenses # << >>
    /\ users[last.message.chat].state = None

\* C17 second case: a text that is no number was refused
C17_WitnessRefused ==
    /\ last.op = "process_daily_limit"
    /\ Kinds(outbox) = << "daily_limit_error" >>
    /\ last.message.chat \in DOMAIN users
    /\ users[last.message.chat].daily_limit # Zero
    /\ users[last.message.chat].state = "set_daily_limit"

\* the awaiting state that belongs to a continuation
StateOf(callback) ==
    CASE callback = "process_expense" -> "add_expense"
      [] callback = "process_daily_limit" -> "set_daily_limit"
      [] callback = "process_delete_expense" -> "delete_expense"

\* C18: whenever a continuation is registered for a chat, the persisted state
\* field of that user is the matching awaiting state, and at most one
\* continuation is pending per chat.
C18_ContinuationMatchesState ==
    \A c \in DOMAIN next_step_handlers :
        /\ Len(next_step_handlers[c]) <= 1
        /\ next_step_handlers[c] # << >>
              => /\ file_exists
                 /\ c \in DOMAIN file
                 /\ file[c].state = StateOf(next_step_handlers[c][1])
                 /\ c \in DOMAIN users
                 /\ users[c].state = StateOf(next_step_handlers[c][1])

\* C18 witness: the continuation of "Delete expense" is pending
C18_Witness ==
    \E c \in DOMAIN next_step_handlers :
        /\ next_step_handlers[c] = << "process_delete_expense" >>
        /\ file_exists
        /\ file[c].state = "delete_expense"
        /\ Len(file[c].expenses) = 2

\* C18, the converse that need not hold: an awaiting state with no
\* continuation pending
C18_WitnessNoContinuation ==
    \E c \in DOMAIN users :
        /\ users[c].state \in AwaitStates
        /\ next_step_handlers[c] = << >>

\* C20: no handler reads the record of a user that is absent from the map: no
\* KeyError escapes a handler, and a chat with a continuation pending has a
\* record.
C20_RecordExistsWhenRead ==
    /\ raised # "KeyError"
    /\ \A c \in DOMAIN next_step_handlers :
          next_step_handlers[c] # << >> => c \in DOMAIN users
    /\ last.op \in HandlerOps => last.message.chat \in DOMAIN users

\* C20 witness: the very first message of a chat was a button, and its
\* continuation then read and changed the record
C20_Witness ==
    /\ last.op = "process_expense"
    /\ raised = "none"
    /\ Kinds(outbox) = << "expense_added" >>
    /\ last.message.chat \in DOMAIN users
    /\ Len(users[last.message.chat].expenses) = 1

\* the handler of the thread as one step on the bot b
AtomicRun(th, b) ==
    CASE th.op = "send_welcome" -> send_welcome(b, th.message)
      [] th.op = "add_expense" -> add_expense(b, th.message)
      [] th.op = "set_daily_limit" -> set_daily_limit(b, th.message)
      [] th.op = "view_expenses" -> view_expenses(b, th.message)
      [] th.op = "delete_expense" -> delete_expense(b, th.message)
      [] th.op = "process_expense" -> process_expense(b, th.message, th.date, clock)
      [] th.op = "process_daily_limit" -> process_daily_limit(b, th.message)
      [] th.op = "process_delete_expense" -> process_delete_expense(b, th.message)
      [] th.op = "unhandled" -> b

\* the bot with the record of the thread's chat as it was when the handler
\* started, nothing sent and nothing registered
BotBefore(c) ==
    [Bot EXCEPT
        !.users = IF threads[c].before.present
                  THEN (c :> threads[c].before.rec) @@ users
                  ELSE [d \in DOMAIN users \ {c} |-> users[d]],
        !.next_step_handlers = [d \in ConcChats |-> << >>],
        !.outbox = << >>]

\* no thread has a statement left to run except its return
AllFinished(th) == \A c \in ConcChats : th[c].rest = << >> \/ Head(th[c].rest).s = "return"

\* the thread of chat c is running the successful branch of process_expense
Inserting(c) ==
    /\ threads[c].op = "process_expense"
    /\ ParseExpense(threads[c].message.text).ok
    /\ threads[c].before.present

\* the expense the thread of chat c inserts
InsertedItem(c) ==
    [category |-> ParseExpense(threads[c].message.text).category,
     amount |-> ParseExpense(threads[c].message.text).amount,
     date |-> threads[c].date]

\* the position of the first message of the kind among those sent, or 0
FirstOf(box, kind) ==
    IF \E i \in 1..Len(box) : box[i].kind = kind
    THEN CHOOSE i \in 1..Len(box) : box[i].kind = kind /\ \A j \in 1..(i - 1) : box[j].kind # kind
    ELSE 0

\* C15: within one successful insertion, whatever the other chat's handler
\* does meanwhile: a reply (warning or success) is sent only when the file
\* already holds the old expenses followed by the new one; the warning is
\* sent before the success reply; the state is "add_expense" in memory and in
\* the file until the success reply is sent, and None in both once the
\* handler returns.
C15_InsertionOrder ==
    \A c \in ConcChats :
        Inserting(c) =>
            LET sent == threads[c].sent
                old == threads[c].before.rec
            IN  /\ sent # << >>
                      => /\ file_exists
                         /\ c \in DOMAIN file
                         /\ file[c].expenses = Append(old.expenses, InsertedItem(c))
                /\ Len(sent) <= 2
                /\ \A i \in 1..Len(sent) : sent[i].kind \in {"warning", "expense_added"}
                /\ FirstOf(sent, "warning") # 0
                      => /\ FirstOf(sent, "warning") = 1
                         /\ LimitExceeded(old.daily_limit,
                                          TotalOn(Append(old.expenses, InsertedItem(c)),
                                                  clock, Len(old.expenses) + 1))
                /\ FirstOf(sent, "expense_added") = 0
                      => /\ users[c].state = "add_expense"
                         /\ file[c].state = "add_expense"
                /\ AtStmt(c, "return")
                      => /\ sent[Len(sent)].kind = "expense_added"
                         /\ users[c].state = None
                         /\ file[c].state = JsonNull
                         /\ file[c].expenses = Append(old.expenses, InsertedItem(c))

\* C15 witness: an insertion returns with the warning and the success reply
\* sent, while the other chat's handler is between its append and its save
C15_Witness ==
    /\ Inserting("1")
    /\ AtStmt("1", "return")
    /\ Kinds(threads["1"].sent) = << "warning", "expense_added" >>
    /\ AtStmt("2", "save")
    /\ threads["2"].op = "process_expense"

\* C19: a statement of one chat's handler leaves the other chat's record as
\* it is; a handler that returns has changed its own record the way the
\* handler run alone would have; and when no handler has a statement left, the
\* file holds exactly the in-memory map.
C19_NoLostUpdate ==
    [][ \A c \in ConcChats :
          threads'[c] # threads[c]
             => /\ \A d \in ConcChats \ {c} :
                      /\ d \in DOMAIN users' <=> d \in DOMAIN users
                      /\ d \in DOMAIN users => users'[d] = users[d]
                /\ (AtStmt(c, "return") /\ threads[c].op # "unhandled")
                      => /\ c \in DOMAIN users
                         /\ users[c] = AtomicRun(threads[c], BotBefore(c)).users[c]
                         /\ threads[c].sent = AtomicRun(threads[c], BotBefore(c)).outbox
                         /\ next_step_handlers[c]
                               = AtomicRun(threads[c], BotBefore(c)).next_step_handlers[c]
                /\ (AllFinished(threads') /\ users' # NoUsers)
                      => /\ file_exists'
                         /\ file' = JsonDump(users') ]_vars

\* C19 witness: chat "1"'s insertion has returned with its last save done,
\* that save wrote the expense chat "2"'s handler had appended and not yet
\* saved itself
C19_Witness ==
    /\ threads["1"].op = "process_expense"
    /\ AtStmt("1", "return")
    /\ Kinds(threads["1"].sent) = << "expense_added" >>
    /\ threads["2"].op = "process_expense"
    /\ AtStmt("2", "save")
    /\ Head(Tail(threads["2"].rest)).s = "check"
    /\ file["2"].expenses = users["2"].expenses
    /\ file["2"].expenses # threads["2"].before.rec.expenses

\* C19: both handlers have returned after running together and the file
\* holds both expenses
C19_WitnessBothDone ==
    /\ \A c \in ConcChats : threads[c].rest = << >>
    /\ file_exists
    /\ file = JsonDump(users)
    /\ \A c \in ConcChats : c \in DOMAIN file /\ Len(file[c].expenses) = 1

====
